---- MODULE Spec2Model ----
(***************************************************************************)
(* The measurement macros of single-bench as one state machine:            *)
(*                                                                         *)
(*   "BENCH"        include/bench.h  BENCH(name, code, iterations)         *)
(*   "BENCH_RDTSC"  include/bench.h  BENCH_RDTSC(name, code, iterations)   *)
(*   "SINGLE_BENCH" single_bench.h   BENCH(iterations, code_block)  v1.1   *)
(*   "SINGLEBENCH"  singlebench.h    BENCH(iterations, code_block), whose  *)
(*                  start timestamp is the file-scope __bench_start       *)
(*                                                                         *)
(* A run is one expansion of a macro.  Run 1 is the run under study; run 2 *)
(* is a run started from inside run 1's code block (specification          *)
(* SpecNested only).                                                       *)
(*                                                                         *)
(* Machine integers are modelled at reduced width: uint64_t has U64Bits    *)
(* bits, int and uint32_t have CounterBits bits, a second has NSEC_PER_SEC *)
(* nanoseconds.  All arithmetic is written as the C code performs it,      *)
(* modulo the width of its type.                                           *)
(***************************************************************************)
EXTENDS Integers, Sequences, FiniteSets, TLC

\* ------------------------------------------------------------- widths
\* width of uint64_t (and of time_t / long, which are as wide)
U64Bits == 8
\* width of int and of uint32_t
CounterBits == 3
\* nanoseconds per second (1000000000ULL in the source)
NSEC_PER_SEC == 2

TwoTo64 == 2 ^ U64Bits
UINT64_MAX == TwoTo64 - 1
TwoTo32 == 2 ^ CounterBits
INT_MAX == 2 ^ (CounterBits - 1) - 1
INT_MIN == -(2 ^ (CounterBits - 1))

\* ------------------------------------------------------------- bounds
\* executions of the code block modelled in one run (one that loops forever never ends)
MaxExec == 5
\* longest duration of one execution of the code block, in ticks
MaxBlock == 3
\* largest backward jump of a skewed timing source, in ticks
MaxSkew == 1
\* latest reading of the timing source when a run starts
MaxT0 == 1

Runs == {1, 2}
\* the iteration counts a caller passes: none, those an int holds, the first an int
\* does not hold, and two that a uint32_t does not hold
IterCounts == (0 .. INT_MAX + 1) \cup {TwoTo32, TwoTo32 + 1}
Macros == {"BENCH", "BENCH_RDTSC", "SINGLE_BENCH", "SINGLEBENCH"}
\* "clock": a monotonic clock that advances while the block runs;
\* "fake":  a test source whose successive reads return t, t+1, t+2, ...;
\* "skewed": a clock that may also step backwards while the block runs
Sources == {"clock", "fake", "skewed"}
\* what the build makes of the signed overflow of the int loop counter
Builds == {"wrap", "widen"}

VARIABLES
    macro,          \* macro[r]: the macro run r expands
    iterations,     \* iterations[r]: the value of the iterations argument
    pc,             \* pc[r]: position of run r in the expansion
    _bench_i,       \* loop counter (_bench_i, __bench_i, _iter)
    _bench_start,   \* start timestamp local to the run
    _bench_end,     \* end timestamp local to the run
    _bench_ns,      \* the delta (_bench_ns, _bench_cycles, __bench_delta, _time)
    _bench_total,
    _bench_min,
    _bench_max,
    __bench_start,  \* singlebench.h: static struct timespec __bench_start
    out,            \* out[r]: what run r has printed
    clock,          \* the timing source's current tick
    source,
    build,
    nested,         \* run 1's code block contains a BENCH of its own
    execs,          \* history: executions of the code block of run r
    reads,          \* history: reads of the timing source by run r
    folds,          \* history: samples folded into the accumulator of run r
    sum,            \* history: exact (unbounded) sum of the deltas of run r
    seen,           \* history: the set of deltas of run r
    trace,          \* history: events of the current iteration of run r
    own,            \* history: the start timestamp run r itself sampled
    wrapped         \* history: run r folded a delta whose end was before its start

vars == << macro, iterations, pc, _bench_i, _bench_start, _bench_end, _bench_ns,
           _bench_total, _bench_min, _bench_max, __bench_start, out, clock,
           source, build, nested, execs, reads, folds, sum, seen, trace, own,
           wrapped >>

locals == << _bench_i, _bench_start, _bench_end, _bench_ns, _bench_total,
             _bench_min, _bench_max >>
config == << macro, iterations, source, build, nested >>
history == << execs, reads, folds, sum, seen, trace, own, wrapped >>

\* ------------------------------------------------------------- types
ToU64(x) == x % TwoTo64
ToU32(x) == x % TwoTo32
\* conversion to int (two's complement), as printf("%d") and an int parameter take it
ToInt(x) == ((x - INT_MIN) % TwoTo32) + INT_MIN

IsTimespec(m) == m \in {"BENCH", "SINGLEBENCH"}
HasAccumulator(m) == m \in {"BENCH", "BENCH_RDTSC"}
IntCounter(m) == m \in {"BENCH", "BENCH_RDTSC", "SINGLEBENCH"}

\* clock_gettime: the struct timespec of tick t
Timespec(t) == [tv_sec |-> t \div NSEC_PER_SEC, tv_nsec |-> t % NSEC_PER_SEC]
\* the instant a struct timespec denotes, in nanoseconds
Nanos(ts) == ts.tv_sec * NSEC_PER_SEC + ts.tv_nsec

SetMin(S) == CHOOSE x \in S : \A y \in S : x <= y
SetMax(S) == CHOOSE x \in S : \A y \in S : x >= y

\* ------------------------------------------------------------- timing source
\* the ticks by which one execution of the code block may move the timing source
BlockTicks ==
    CASE source = "clock"  -> 0 .. MaxBlock
      [] source = "fake"   -> {0}
      [] source = "skewed" -> { b \in (-MaxSkew) .. MaxBlock : clock + b >= 0 }

\* the timing source after one read of it
AfterRead == IF source = "fake" THEN clock + 1 ELSE clock

\* single_bench.h: __bench_get_ns
GetNs(t) ==
    LET ts == Timespec(t)
    IN  ToU64(ToU64(ToU64(ts.tv_sec) * NSEC_PER_SEC) + ToU64(ts.tv_nsec))

\* the value a macro stores for a read of the timing source at tick t:
\* a struct timespec (clock_gettime), the 64-bit counter (RDTSCP), or nanoseconds
Stamp(m, t) ==
    CASE IsTimespec(m)        -> Timespec(t)
      [] m = "BENCH_RDTSC"    -> ToU64(t)
      [] m = "SINGLE_BENCH"   -> GetNs(t)

\* a timestamp variable before its first assignment (never read before it)
Unset(m) == Stamp(m, 0)

\* ------------------------------------------------------------- delta
\* mutant of DeltaNs: the nanosecond difference is kept only when it is not negative
DeltaNsNoBorrow(e, s) ==
    ToU64(ToU64(ToU64(e.tv_sec - s.tv_sec) * NSEC_PER_SEC)
          + (IF e.tv_nsec >= s.tv_nsec THEN e.tv_nsec - s.tv_nsec ELSE 0))

\* ((end.tv_sec - start.tv_sec) * 1000000000ULL) + (end.tv_nsec - start.tv_nsec):
\* the long differences are converted to uint64_t by the ULL factor
DeltaNs(e, s) ==
    ToU64(ToU64(ToU64(e.tv_sec - s.tv_sec) * NSEC_PER_SEC) + ToU64(e.tv_nsec - s.tv_nsec))

\* _bench_end - _bench_start on uint64_t
DeltaU64(e, s) == ToU64(e - s)

\* the delta run r computes from its end timestamp
Delta(r) ==
    CASE macro[r] = "BENCH"        -> DeltaNs(_bench_end[r], _bench_start[r])
      [] macro[r] = "BENCH_RDTSC"  -> DeltaU64(_bench_end[r], _bench_start[r])
      [] macro[r] = "SINGLE_BENCH" -> DeltaU64(_bench_end[r], _bench_start[r])
      [] macro[r] = "SINGLEBENCH"  -> DeltaNs(_bench_end[r], __bench_start)

\* the end timestamp e denotes an earlier instant than the start timestamp s
Earlier(m, e, s) == IF IsTimespec(m) THEN Nanos(e) < Nanos(s) ELSE e < s

\* ------------------------------------------------------------- accumulator
FoldTotal(total, d) == ToU64(total + d)
\* mutant of FoldMin: the comparison is turned around
FoldMinFlipped(mn, d) == IF d > mn THEN d ELSE mn
FoldMin(mn, d) == IF d < mn THEN d ELSE mn
FoldMax(mx, d) == IF d > mx THEN d ELSE mx

\* ------------------------------------------------------------- loop
\* the bound the loop counter is compared with
LoopBound(m, n) == IF m = "SINGLE_BENCH" THEN ToU32(n) ELSE n

\* _bench_i++ : an int counter at INT_MAX overflows, which is undefined; the build
\* either wraps it or keeps the counter in a wider register
Increment(m, i) ==
    CASE m = "SINGLE_BENCH"         -> ToU32(i + 1)
      [] IntCounter(m) /\ i = INT_MAX -> IF build = "wrap" THEN INT_MIN ELSE i + 1
      [] OTHER                      -> i + 1

\* ------------------------------------------------------------- report
\* (double)total / iterations, kept as the fraction it denotes (a total below
\* 2^53 converts to double exactly)
Avg(total, n) == [num |-> total, den |-> n]

ReportOf(r) ==
    CASE HasAccumulator(macro[r]) ->
            [ name |-> macro[r],
              avg  |-> Avg(_bench_total[r], iterations[r]),
              min  |-> _bench_min[r],
              max  |-> _bench_max[r],
              runs |-> ToInt(iterations[r]) ]
      [] macro[r] = "SINGLE_BENCH" ->
            [ name |-> macro[r],
              iterations |-> ToU32(iterations[r]),
              total |-> _bench_ns[r],
              avg  |-> Avg(_bench_ns[r], iterations[r]) ]
      [] macro[r] = "SINGLEBENCH" ->
            [ name |-> macro[r],
              iterations |-> ToInt(iterations[r]),
              total |-> _bench_ns[r],
              avg  |-> Avg(_bench_ns[r], ToInt(iterations[r])) ]

\* ------------------------------------------------------------- control
Upd(f, r, v) == [f EXCEPT ![r] = v]
Log(r, e) == Upd(trace, r, Append(trace[r], e))

\* the statement order of each macro's expansion
\* mutant of FirstOfBody: BENCH reads the clock without the barrier before it
FirstOfBodyUnfenced(m) == IF HasAccumulator(m) THEN "start" ELSE "block"
FirstOfBody(m) ==
    CASE m = "BENCH"       -> "barrier1"
      [] m = "BENCH_RDTSC" -> "start"
      [] OTHER             -> "block"
AfterLoop(m)     == IF HasAccumulator(m) THEN "report" ELSE "end"
AfterBarrier1(m) == IF m = "BENCH" THEN "start" ELSE "block"
AfterStart(m)    == IF m = "BENCH" THEN "block" ELSE "barrier1"
AfterBlock(m)    == IF HasAccumulator(m) THEN "barrier2" ELSE "incr"
\* mutant of AfterDelta: every sample is printed as soon as it is computed
AfterDeltaPrinting(m) == "report"
AfterDelta(m)    == IF HasAccumulator(m) THEN "update" ELSE "report"

\* ------------------------------------------------------------- initial states
\* the build's treatment of the counter overflow matters only to a run that reaches it
OverflowReachable(m, n) == IntCounter(m) /\ n > INT_MAX

InitRun(m, n1, n2, src, bld, t0, nest) ==
    /\ macro = [r \in Runs |-> m]
    /\ iterations = (1 :> n1) @@ (2 :> n2)
    /\ pc = (1 :> "begin") @@ (2 :> "idle")
    /\ _bench_i = [r \in Runs |-> 0]
    /\ _bench_start = [r \in Runs |-> Unset(m)]
    /\ _bench_end = [r \in Runs |-> Unset(m)]
    /\ _bench_ns = [r \in Runs |-> 0]
    /\ _bench_total = [r \in Runs |-> 0]
    /\ _bench_min = [r \in Runs |-> 0]
    /\ _bench_max = [r \in Runs |-> 0]
    /\ __bench_start = Timespec(0)
    /\ out = [r \in Runs |-> << >>]
    /\ clock = t0
    /\ source = src
    /\ build = bld
    /\ nested = nest
    /\ execs = [r \in Runs |-> 0]
    /\ reads = [r \in Runs |-> 0]
    /\ folds = [r \in Runs |-> 0]
    /\ sum = [r \in Runs |-> 0]
    /\ seen = [r \in Runs |-> {}]
    /\ trace = [r \in Runs |-> << >>]
    /\ own = [r \in Runs |-> Unset(m)]
    /\ wrapped = [r \in Runs |-> FALSE]

\* one run, any macro, any iteration count
Init ==
    \E m \in Macros, n \in IterCounts, src \in Sources, bld \in Builds, t0 \in 0 .. MaxT0 :
        /\ (bld = "widen" => OverflowReachable(m, n))
        /\ InitRun(m, n, 0, src, bld, t0, FALSE)

\* a run whose code block is itself a run of the same header's macro
InitNested ==
    \E m \in Macros, n1 \in 1 .. 2, n2 \in 1 .. 2, src \in Sources, t0 \in 0 .. MaxT0 :
        InitRun(m, n1, n2, src, "wrap", t0, TRUE)

\* ------------------------------------------------------------- actions
\* bench.h 42-43, 88-89: the accumulator's initial values; 46, 91: int _bench_i = 0
\* single_bench.h 73: __bench_start = __bench_get_ns(); singlebench.h 43: bench_start()
Begin(r) ==
    /\ pc[r] = "begin"
    /\ pc' = Upd(pc, r, "test")
    /\ _bench_i' = Upd(_bench_i, r, 0)
    /\ IF HasAccumulator(macro[r])
         THEN /\ _bench_min' = Upd(_bench_min, r, UINT64_MAX)
              /\ _bench_max' = Upd(_bench_max, r, 0)
              /\ _bench_total' = Upd(_bench_total, r, 0)
              /\ UNCHANGED << _bench_start, __bench_start, own, clock, reads >>
         ELSE /\ IF macro[r] = "SINGLE_BENCH"
                   THEN /\ _bench_start' = Upd(_bench_start, r, Stamp(macro[r], clock))
                        /\ UNCHANGED __bench_start
                   ELSE /\ __bench_start' = Stamp(macro[r], clock)
                        /\ UNCHANGED _bench_start
              /\ own' = Upd(own, r, Stamp(macro[r], clock))
              /\ clock' = AfterRead
              /\ reads' = Upd(reads, r, reads[r] + 1)
              /\ UNCHANGED << _bench_min, _bench_max, _bench_total >>
    /\ UNCHANGED << config, _bench_end, _bench_ns, out, execs, folds, sum, seen, trace,
                    wrapped >>

\* the loop condition holds: the body is entered
LoopEnter(r) ==
    /\ pc[r] = "test"
    /\ _bench_i[r] < LoopBound(macro[r], iterations[r])
    /\ execs[r] < MaxExec
    /\ pc' = Upd(pc, r, FirstOfBody(macro[r]))
    /\ trace' = Upd(trace, r, << >>)
    /\ UNCHANGED << config, locals, __bench_start, out, clock, execs, reads, folds,
                    sum, seen, own, wrapped >>

\* the loop condition fails: the loop is left
LoopExit(r) ==
    /\ pc[r] = "test"
    /\ ~(_bench_i[r] < LoopBound(macro[r], iterations[r]))
    /\ pc' = Upd(pc, r, AfterLoop(macro[r]))
    /\ UNCHANGED << config, locals, __bench_start, out, clock, history >>

\* asm volatile ("" ::: "memory")
Barrier(r) ==
    /\ pc[r] \in {"barrier1", "barrier2"}
    /\ pc' = Upd(pc, r, IF pc[r] = "barrier1" THEN AfterBarrier1(macro[r]) ELSE "end")
    /\ trace' = Log(r, "barrier")
    /\ UNCHANGED << config, locals, __bench_start, out, clock, execs, reads, folds,
                    sum, seen, own, wrapped >>

\* bench.h 49: clock_gettime(CLOCK_MONOTONIC_RAW, &_bench_start); 93-101: RDTSCP
SampleStart(r) ==
    /\ pc[r] = "start"
    /\ _bench_start' = Upd(_bench_start, r, Stamp(macro[r], clock))
    /\ own' = Upd(own, r, Stamp(macro[r], clock))
    /\ clock' = AfterRead
    /\ reads' = Upd(reads, r, reads[r] + 1)
    /\ pc' = Upd(pc, r, AfterStart(macro[r]))
    /\ trace' = Log(r, "start")
    /\ UNCHANGED << config, _bench_i, _bench_end, _bench_ns, _bench_total, _bench_min,
                    _bench_max, __bench_start, out, execs, folds, sum, seen, wrapped >>

\* { code; } : one execution of a code block that holds no run of its own
Block(r) ==
    /\ pc[r] = "block"
    /\ ~(nested /\ r = 1)
    /\ \E b \in BlockTicks : clock' = clock + b
    /\ execs' = Upd(execs, r, execs[r] + 1)
    /\ pc' = Upd(pc, r, AfterBlock(macro[r]))
    /\ trace' = Log(r, "block")
    /\ UNCHANGED << config, locals, __bench_start, out, reads, folds, sum, seen, own,
                    wrapped >>

\* { code; } of run 1 reaches the macro it contains: run 2 starts afresh
CallInner ==
    /\ nested
    /\ pc[1] = "block"
    /\ pc[2] = "idle"
    /\ pc' = (1 :> "inner") @@ (2 :> "begin")
    /\ out' = Upd(out, 2, << >>)
    /\ execs' = Upd(execs, 2, 0)
    /\ reads' = Upd(reads, 2, 0)
    /\ folds' = Upd(folds, 2, 0)
    /\ sum' = Upd(sum, 2, 0)
    /\ seen' = Upd(seen, 2, {})
    /\ trace' = Upd(trace, 2, << >>)
    /\ wrapped' = Upd(wrapped, 2, FALSE)
    /\ UNCHANGED << config, locals, __bench_start, clock, own >>

\* run 2 has printed its report: run 1's code block is over
ReturnInner ==
    /\ nested
    /\ pc[1] = "inner"
    /\ pc[2] = "done"
    /\ pc' = (1 :> AfterBlock(macro[1])) @@ (2 :> "idle")
    /\ execs' = Upd(execs, 1, execs[1] + 1)
    /\ trace' = Log(1, "block")
    /\ UNCHANGED << config, locals, __bench_start, out, clock, reads, folds, sum, seen,
                    own, wrapped >>

\* bench.h 56, 109-117; single_bench.h 81; singlebench.h 26: the end timestamp
SampleEnd(r) ==
    /\ pc[r] = "end"
    /\ _bench_end' = Upd(_bench_end, r, Stamp(macro[r], clock))
    /\ clock' = AfterRead
    /\ reads' = Upd(reads, r, reads[r] + 1)
    /\ pc' = Upd(pc, r, "delta")
    /\ trace' = Log(r, "end")
    /\ UNCHANGED << config, _bench_i, _bench_start, _bench_ns, _bench_total, _bench_min,
                    _bench_max, __bench_start, out, execs, folds, sum, seen, own,
                    wrapped >>

\* bench.h 59-60, 120; single_bench.h 82; singlebench.h 28-29
ComputeDelta(r) ==
    /\ pc[r] = "delta"
    /\ _bench_ns' = Upd(_bench_ns, r, Delta(r))
    /\ pc' = Upd(pc, r, AfterDelta(macro[r]))
    /\ trace' = Log(r, "delta")
    /\ UNCHANGED << config, _bench_i, _bench_start, _bench_end, _bench_total, _bench_min,
                    _bench_max, __bench_start, out, clock, execs, reads, folds, sum,
                    seen, own, wrapped >>

\* bench.h 63-65, 121-123
Update(r) ==
    /\ pc[r] = "update"
    /\ _bench_total' = Upd(_bench_total, r, FoldTotal(_bench_total[r], _bench_ns[r]))
    /\ _bench_min' = Upd(_bench_min, r, FoldMin(_bench_min[r], _bench_ns[r]))
    /\ _bench_max' = Upd(_bench_max, r, FoldMax(_bench_max[r], _bench_ns[r]))
    /\ folds' = Upd(folds, r, folds[r] + 1)
    /\ sum' = Upd(sum, r, sum[r] + _bench_ns[r])
    /\ seen' = Upd(seen, r, seen[r] \cup {_bench_ns[r]})
    /\ wrapped' = Upd(wrapped, r,
                      wrapped[r] \/ Earlier(macro[r], _bench_end[r], _bench_start[r]))
    /\ pc' = Upd(pc, r, "incr")
    /\ trace' = Log(r, "update")
    /\ UNCHANGED << config, _bench_i, _bench_start, _bench_end, _bench_ns,
                    __bench_start, out, clock, execs, reads, own >>

\* _bench_i++, ++__bench_i, _iter++
Incr(r) ==
    /\ pc[r] = "incr"
    /\ _bench_i' = Upd(_bench_i, r, Increment(macro[r], _bench_i[r]))
    /\ pc' = Upd(pc, r, "test")
    /\ UNCHANGED << config, _bench_start, _bench_end, _bench_ns, _bench_total,
                    _bench_min, _bench_max, __bench_start, out, clock, history >>

\* bench.h 69-74, 126-131; single_bench.h 85-89; singlebench.h 48: printf
Report(r) ==
    /\ pc[r] = "report"
    /\ out' = Upd(out, r, Append(out[r], ReportOf(r)))
    /\ pc' = Upd(pc, r, "done")
    /\ UNCHANGED << config, locals, __bench_start, clock, history >>

Step(r) ==
    \/ Begin(r)
    \/ LoopEnter(r)
    \/ LoopExit(r)
    \/ Barrier(r)
    \/ SampleStart(r)
    \/ Block(r)
    \/ SampleEnd(r)
    \/ ComputeDelta(r)
    \/ Update(r)
    \/ Incr(r)
    \/ Report(r)

Next == Step(1)

NextNested ==
    \/ \E r \in Runs : Step(r)
    \/ CallInner
    \/ ReturnInner

Spec == Init /\ [][Next]_vars
SpecNested == InitNested /\ [][NextNested]_vars

\* ------------------------------------------------------------- properties
Done(r) == pc[r] = "done"
LoopOver(r) == ~(_bench_i[r] < LoopBound(macro[r], iterations[r]))
\* the delta has been computed and not yet consumed
DeltaFresh(r) == pc[r] = (IF HasAccumulator(macro[r]) THEN "update" ELSE "report")

\* C1: a completed run of N >= 1 iterations has executed the block N times, has
\* taken one start/end pair per execution, has folded N samples, and reports N
\* as Runs.
CountConsistency ==
    \A r \in Runs :
        (Done(r) /\ iterations[r] >= 1) =>
            /\ execs[r] = iterations[r]
            /\ reads[r] = 2 * execs[r]
            /\ folds[r] = iterations[r]
            /\ out[r][1].name \in {"BENCH", "BENCH_RDTSC"} /\ out[r][1].runs = folds[r]

\* C1, as far as the code goes: in bench.h, with a count an int holds
CountConsistencyBenchH ==
    \A r \in Runs :
        (Done(r) /\ HasAccumulator(macro[r]) /\ iterations[r] \in 1 .. INT_MAX) =>
            /\ execs[r] = iterations[r]
            /\ reads[r] = 2 * execs[r]
            /\ folds[r] = iterations[r]
            /\ out[r][1].runs = folds[r]

\* C2: a run of a bench.h macro with iterations = 0 never reads a timestamp,
\* never executes the block and never prints a report.
ZeroIterationsRejected ==
    \A r \in Runs :
        (HasAccumulator(macro[r]) /\ iterations[r] = 0) =>
            (reads[r] = 0 /\ execs[r] = 0 /\ out[r] = << >>)

\* C3: no delta whose end timestamp is earlier than its start timestamp is ever
\* folded into the accumulator (so none reaches total, max or the report).
NonMonotonicSampleGuarded ==
    \A r \in Runs : ~wrapped[r]

\* C4: every report of a run of N >= 1 iterations shows min <= avg <= max, all
\* three >= 0, with avg = total / N.
ReportedOrder ==
    \A r \in Runs :
        (Done(r) /\ HasAccumulator(macro[r]) /\ iterations[r] >= 1) =>
            LET rep == out[r][1]
            IN  /\ rep.avg.den > 0
                /\ rep.min >= 0 /\ rep.avg.num >= 0 /\ rep.max >= 0
                /\ rep.min * rep.avg.den <= rep.avg.num
                /\ rep.avg.num <= rep.max * rep.avg.den

\* C5: a run prints nothing before its loop is over, and prints its report
\* exactly once, after the loop.
ReportOnceAfterLoop ==
    \A r \in Runs :
        /\ Len(out[r]) <= 1
        /\ out[r] # << >> => Done(r)
        /\ Done(r) => (Len(out[r]) = 1 /\ LoopOver(r))

ReportOnceAfterLoopWitness ==
    /\ Done(1) /\ execs[1] >= 2 /\ Len(out[1]) = 1

\* C6: the delta a run computes is the one between its end timestamp and the
\* start timestamp this same run sampled.
OwnStartUsed ==
    \A r \in Runs :
        DeltaFresh(r) =>
            _bench_ns[r] = (IF IsTimespec(macro[r])
                              THEN DeltaNs(_bench_end[r], own[r])
                              ELSE DeltaU64(_bench_end[r], own[r]))

\* C7 as stated: in both engines of bench.h an iteration is barrier, start
\* sample, code block, barrier, end sample, delta, accumulator update.
ClaimedOrder == << "barrier", "start", "block", "barrier", "end", "delta", "update" >>
IsPrefix(s, t) == Len(s) <= Len(t) /\ s = SubSeq(t, 1, Len(s))

EngineOrder(m) ==
    IF m = "BENCH"
      THEN << "barrier", "start", "block", "barrier", "end", "delta", "update" >>
      ELSE << "start", "barrier", "block", "barrier", "end", "delta", "update" >>

AccumulatorIsFold ==
    \A r \in Runs :
        (HasAccumulator(macro[r]) /\ pc[r] \notin {"idle", "begin"}) =>
            /\ folds[r] = 0 =>
                  /\ _bench_total[r] = 0
                  /\ _bench_min[r] = UINT64_MAX
                  /\ _bench_max[r] = 0
            /\ folds[r] >= 1 =>
                  /\ _bench_total[r] = sum[r] % TwoTo64
                  /\ sum[r] <= UINT64_MAX => _bench_total[r] = sum[r]
                  /\ _bench_min[r] = SetMin(seen[r])
                  /\ _bench_max[r] = SetMax(seen[r])
            /\ (source = "fake" /\ ~nested /\ Done(r) /\ iterations[r] >= 1) =>
                  /\ _bench_total[r] = iterations[r]
                  /\ _bench_min[r] = 1
                  /\ _bench_max[r] = 1

AccumulatorIsFoldWitness ==
    /\ Done(1) /\ HasAccumulator(macro[1]) /\ folds[1] >= 3
    /\ _bench_min[1] < _bench_max[1] /\ _bench_min[1] > 0
    /\ _bench_total[1] = sum[1]

\* C9: a run never executes its block more often than asked, and is over only
\* once it has executed it as often as asked.
RunsAllIterations ==
    \A r \in Runs :
        /\ execs[r] <= iterations[r]
        /\ Done(r) => execs[r] = iterations[r]

\* C10: for an end timestamp that is not earlier than the start timestamp, the
\* delta of the duration engine is the elapsed time in nanoseconds.
DeltaIsElapsed ==
    \A r \in Runs :
        /\ (macro[r] = "BENCH" /\ DeltaFresh(r)
              /\ ~Earlier(macro[r], _bench_end[r], _bench_start[r])) =>
               _bench_ns[r] = Nanos(_bench_end[r]) - Nanos(_bench_start[r])
        /\ (macro[r] = "SINGLEBENCH" /\ DeltaFresh(r)
              /\ ~Earlier(macro[r], _bench_end[r], __bench_start)) =>
               _bench_ns[r] = Nanos(_bench_end[r]) - Nanos(__bench_start)

\* the borrow case: the end's nanoseconds are below the start's
DeltaIsElapsedWitness ==
    /\ macro[1] = "BENCH" /\ DeltaFresh(1)
    /\ _bench_end[1].tv_nsec < _bench_start[1].tv_nsec
    /\ _bench_end[1].tv_sec > _bench_start[1].tv_sec
    /\ _bench_ns[1] > 0

====
